---- MODULE Spec2Model ----
(***************************************************************************)
(* Distributed job queue: the jobs table (api/controllers/jobController.js)*)
(* driven by a producer, a broker queue and a pool of workers.             *)
(*                                                                         *)
(* The store operations createJobInDB, getJobById and updateJobStatus are  *)
(* translated from the SQL they run.  The producer route, the broker list  *)
(* and the worker loop are not part of the sources at hand; they follow    *)
(* sections 4.2 to 4.5 of the design and call the store operations as      *)
(* written.  The jobs table has no retries column, so the attempt counter  *)
(* is kept by the lifecycle engine next to the table.                      *)
(*                                                                         *)
(* The table stores the status under the names the controller uses:        *)
(* 'pending' is the state the design calls QUEUED, 'processing',           *)
(* 'completed' and 'failed' are PROCESSING, COMPLETED and FAILED.          *)
(*                                                                         *)
(* The start-up of the API process (the import graph, db/db.js, the redis  *)
(* connect and startServer) is a specification of its own, StartupSpec.    *)
(* Three statements of the sources end every process that reaches them:    *)
(* two duplicate imports and the process.exit(1) of db.js.  StartupSpec    *)
(* runs the sources as they stand and with any of the three taken out.     *)
(* CrashSpec adds worker crashes to the pipeline and FairSpec schedules    *)
(* the pipeline fairly.                                                    *)
(***************************************************************************)
EXTENDS Integers, Sequences, FiniteSets, TLC

(* ---------------------------- bounds ----------------------------------- *)
MaxJobs == 1
NumWorkers == 2
MaxDup == 1
MaxClock == 1
MaxRows == 2

(* ------------------------- program constants --------------------------- *)
maxRetries == 3
DefaultPort == 5000
TypeMaxLen == 50
StatusMaxLen == 20

NULL == "NULL"

StatusPending == "pending"
StatusProcessing == "processing"
StatusCompleted == "completed"
StatusFailed == "failed"

ReadmeStatuses == {"QUEUED", "PROCESSING", "COMPLETED", "FAILED"}

KnownTypes == {"sendEmail", "resizeImage", "generateReport", "sendNotification", "scrapeWebsite"}

\* a string of n spaces
RECURSIVE Spaces(_)
Spaces(n) == IF n = 0 THEN "" ELSE " " \o Spaces(n - 1)

\* a job type of 51 characters and a status of 21; a status of 21 characters
\* of which the last 12 are spaces
LongType == "recomputeTheQuarterlyForecastForEveryRegionAndStore"
LongStatus == "waiting-for-a-handler"
PaddedStatus == StatusCompleted \o Spaces(12)

\* a payload is named by the kind of JavaScript value the caller passes:
\* "object" is a plain object such as {to: "a@b.com"}, "string" a string
\* that is not JSON text, "array" a non-empty array; the calls made here
\* pass an object, a string or nothing
TypeInputs == {"generateReport", "mineBitcoin", LongType, NULL}
\* the types the store is called with directly
StoreTypeInputs == {"generateReport", LongType, NULL}
PayloadInputs == {"object", "string", NULL}
\* process.env.PORT: not set (0), "3000", "70000", "-1"
PortInputs == {0, 3000, 70000, -1}
StatusInputs == {StatusCompleted, "bogus", LongStatus, PaddedStatus, NULL}

Workers == 1..NumWorkers

\* the statements of the sources that end the process in every run that gets
\* to them: the second import of dotenv in api/redisClient.js and the second
\* import of db in jobController.js (either makes its module a SyntaxError),
\* and the process.exit(1) at the end of the body of db/db.js
Defects == {"redisClient.js:122", "jobController.js:64", "db.js:125"}

VARIABLES
    jobs,      \* the jobs table: id -> row
    seq,       \* last value handed out by the SERIAL sequence of jobs.id
    clock,     \* CURRENT_TIMESTAMP
    ret,       \* outcome of the last direct store call
    queue,     \* the broker list of job ids
    dups,      \* duplicate deliveries made by the broker so far
    retries,   \* id -> execution attempts so far
    ppc,       \* producer: "idle" or "enqueue" (between insert and enqueue)
    pjob,      \* producer: id of the job being submitted
    resp,      \* producer: the last HTTP response
    wpc,       \* worker -> position in its loop
    wjob,      \* worker -> job id it holds (0: none)
    wres,      \* worker -> handler outcome to report
    fails,     \* id -> handler executions that ended in error
    succs,     \* id -> handler executions that ended in success
    orphaned,  \* ids whose enqueue failed after the insert
    requeueFirst, \* the workers re-enqueue a retry before they write its status
    repairs,   \* the statements of Defects taken out of the sources that run
    portBusy,  \* another process holds the port the server is to listen on
    apc,       \* API process: position in its start-up
    dbUp,      \* the store is reachable
    redisUp,   \* the broker is reachable
    tableReady,\* CREATE TABLE IF NOT EXISTS jobs has succeeded
    envPort,   \* process.env.PORT (0: not set)
    listenPort,\* what the server listens on (0: nothing; below 0: a pipe)
    abortedAt, \* the statement that ended the process ("none": running)
    redisGivesUp, \* the redis client rejects connect() when the broker is
               \* unreachable (FALSE: it keeps retrying, connect() pending)
    connectFailed \* an attempt to connect to the broker has failed

vars == <<jobs, seq, clock, ret, queue, dups, retries, ppc, pjob, resp,
          wpc, wjob, wres, fails, succs, orphaned, requeueFirst,
          repairs, portBusy, apc, dbUp, redisUp, tableReady, envPort, listenPort, abortedAt,
          redisGivesUp, connectFailed>>

storeVars == <<jobs, seq, clock, ret>>
pipeVars == <<queue, dups, retries, ppc, pjob, resp, wpc, wjob, wres, fails, succs, orphaned,
              requeueFirst>>
workerVars == <<wpc, wjob, wres>>
producerVars == <<ppc, pjob, resp>>
histVars == <<fails, succs, orphaned>>
orderVars == <<requeueFirst>>
\* what a run is started with
settingVars == <<repairs, portBusy, envPort, redisGivesUp>>
startVars == <<repairs, portBusy, apc, dbUp, redisUp, tableReady, envPort, listenPort, abortedAt,
               redisGivesUp, connectFailed>>

(* ------------------------------ store ---------------------------------- *)

\* what the driver sends for the parameter: an object goes out as its
\* JSON.stringify text, a string as it is, an array as an array literal
PgWire(payload) ==
    CASE payload = "object" -> "json"
      [] payload = "string" -> "text"
      [] payload = "array" -> "array-literal"
      [] OTHER -> "null"

\* the parameter binds to the JSONB column: NULL, or JSON text
JsonbBinds(payload) == PgWire(payload) \in {"json", "null"}

\* a string assigned to a VARCHAR(n) column is taken when it has at most n
\* characters, or when all of its characters after the n-th are spaces
FitsVarchar(str, n) ==
    IF Len(str) <= n THEN TRUE
    ELSE SubSeq(str, n + 1, Len(str)) = Spaces(Len(str) - n)

\* what the column then holds: the string cut to n characters
AsVarchar(str, n) == IF Len(str) <= n THEN str ELSE SubSeq(str, 1, n)

\* INSERT fails on a payload that is not JSON, on the NOT NULL columns type
\* and payload, and on a type that does not fit VARCHAR(50)
InsertAccepted(type, payload) ==
    /\ JsonbBinds(payload)
    /\ type # NULL
    /\ payload # NULL
    /\ FitsVarchar(type, TypeMaxLen)

\* the INSERT got as far as nextval of the SERIAL column. A parameter that
\* does not bind fails before the statement is planned, and the length
\* coercion of the bound type to VARCHAR(50) is evaluated while the statement
\* is planned: both leave the sequence alone. The NOT NULL constraints are
\* checked on the row, after its id was drawn
SeqConsumed(type, payload) ==
    /\ JsonbBinds(payload)
    /\ type = NULL \/ FitsVarchar(type, TypeMaxLen)

\* the UPDATE raises: the length coercion of the bound status to VARCHAR(20)
\* is evaluated while the statement is planned, whether or not a row has the
\* id; the NOT NULL constraint is checked on the row that is updated
UpdateThrows(js, id, status) ==
    \/ status # NULL /\ ~FitsVarchar(status, StatusMaxLen)
    \/ id \in DOMAIN js /\ status = NULL

\* an insert that stores the row as already taken
NewRowProcessing(id, type, payload, now) ==
    [id |-> id, type |-> AsVarchar(type, TypeMaxLen), payload |-> payload, status |-> StatusProcessing,
     created_at |-> now, updated_at |-> now]

\* the row INSERT INTO jobs (type, payload, status) VALUES ($1, $2, 'pending') makes
NewRow(id, type, payload, now) ==
    [id |-> id, type |-> AsVarchar(type, TypeMaxLen), payload |-> payload, status |-> StatusPending,
     created_at |-> now, updated_at |-> now]

\* the table after createJobInDB(type, payload); the row gets id
createJobInDB(js, id, type, payload, now) ==
    IF InsertAccepted(type, payload)
    THEN js @@ (id :> NewRow(id, type, payload, now))
    ELSE js

\* a read of the store that misses every status update made since the insert
getJobByIdAsInserted(js, id) ==
    IF id \in DOMAIN js
      THEN <<NewRow(id, js[id].type, js[id].payload, js[id].created_at)>>
      ELSE <<>>

\* result.rows of SELECT * FROM jobs WHERE id = $1
getJobById(js, id) ==
    IF id \in DOMAIN js THEN <<js[id]>> ELSE <<>>

\* UPDATE fails on the NOT NULL column status and on a status that does
\* not fit VARCHAR(20)
UpdateAccepted(status) == status # NULL /\ FitsVarchar(status, StatusMaxLen)

\* an update whose WHERE clause is missing: every row is written
updateJobStatusAllRows(js, id, status, now) ==
    IF id \in DOMAIN js /\ UpdateAccepted(status)
    THEN [k \in DOMAIN js |-> [js[k] EXCEPT !.status = AsVarchar(status, StatusMaxLen), !.updated_at = now]]
    ELSE js

\* an update that inserts the row it does not find
updateJobStatusUpsert(js, id, status, now) ==
    IF ~UpdateAccepted(status) THEN js
    ELSE IF id \in DOMAIN js
      THEN [js EXCEPT ![id].status = AsVarchar(status, StatusMaxLen), ![id].updated_at = now]
      ELSE js @@ (id :> [id |-> id, type |-> NULL, payload |-> NULL, status |-> AsVarchar(status, StatusMaxLen),
                         created_at |-> now, updated_at |-> now])

\* the table after updateJobStatus(id, status)
updateJobStatus(js, id, status, now) ==
    IF id \in DOMAIN js /\ UpdateAccepted(status)
    THEN [js EXCEPT ![id].status = AsVarchar(status, StatusMaxLen), ![id].updated_at = now]
    ELSE js

\* result.rows of the UPDATE ... RETURNING *
updateJobStatusRows(js, id, status, now) ==
    IF id \in DOMAIN js /\ UpdateAccepted(status)
    THEN <<updateJobStatus(js, id, status, now)[id]>>
    ELSE <<>>

TypeOK ==
    /\ seq \in 0..(MaxJobs + MaxRows)
    /\ DOMAIN jobs \subseteq 1..seq
    /\ clock \in 0..MaxClock
    /\ \A w \in Workers : wpc[w] \in {"idle", "fetch", "claim", "exec", "report", "requeue", "write", "crashed"}
    /\ requeueFirst \in BOOLEAN
    /\ apc \in {"link", "load", "connect", "create", "listen", "listening", "unbound", "exited"}
    /\ repairs \subseteq Defects
    /\ portBusy \in BOOLEAN
    /\ redisGivesUp \in BOOLEAN
    /\ connectFailed \in BOOLEAN
    /\ envPort \in PortInputs
    /\ listenPort \in {0, DefaultPort} \cup PortInputs
    /\ abortedAt \in {"none", "redisClient.js:122", "jobController.js:64", "db.js:125",
                       "redisClient.js:99", "jobController.js:119",
                       "redisClient.js:313", "redisClient.js:333"}

\* an empty table, an empty broker queue, producer and workers at rest
InitPipeline ==
    /\ jobs = <<>>
    /\ seq = 0
    /\ clock = 0
    /\ ret = [threw |-> FALSE, rows |-> <<>>]
    /\ queue = <<>>
    /\ dups = 0
    /\ retries = <<>>
    /\ ppc = "idle"
    /\ pjob = 0
    /\ resp = [code |-> 0]
    /\ wpc = [w \in Workers |-> "idle"]
    /\ wjob = [w \in Workers |-> 0]
    /\ wres = [w \in Workers |-> "none"]
    /\ fails = <<>>
    /\ succs = <<>>
    /\ orphaned = {}

\* the pipeline behind an API that has come up: its sources load, and the
\* db module hands over its pool and returns
InitServing ==
    /\ InitPipeline
    /\ repairs = Defects
    /\ portBusy = FALSE
    /\ apc = "listening"
    /\ dbUp = TRUE
    /\ redisUp = TRUE
    /\ tableReady = TRUE
    /\ envPort = 0
    /\ listenPort = DefaultPort
    /\ abortedAt = "none"
    /\ redisGivesUp = FALSE
    /\ connectFailed = FALSE

\* the workers write the status of a retry before they re-enqueue it
Init ==
    /\ InitServing
    /\ requeueFirst = FALSE

(* ----------------------------- producer -------------------------------- *)

AnySubmissionValid(type, payload) == TRUE

\* submit validates that type is a known handler and that payload is present
ValidSubmission(type, payload) == type \in KnownTypes /\ payload # NULL

\* the body POST /submit-job answers with
SubmitResponse(id) == [code |-> 200, jobId |-> id, status |-> "QUEUED"]

\* POST /submit-job, a bad submission: 400, nothing is stored or enqueued
SubmitRejected(type, payload) ==
    /\ ppc = "idle"
    /\ ~ValidSubmission(type, payload)
    /\ resp' = [code |-> 400]
    /\ UNCHANGED <<startVars, storeVars, queue, dups, retries, ppc, pjob, workerVars, histVars, orderVars>>

\* POST /submit-job, first half: validation and the store insert
SubmitInsert(type, payload) ==
    /\ ppc = "idle"
    /\ ValidSubmission(type, payload)
    /\ InsertAccepted(type, payload)
    /\ seq < MaxJobs
    /\ LET id == seq + 1 IN
        /\ jobs' = createJobInDB(jobs, id, type, payload, clock)
        /\ seq' = id
        /\ retries' = retries @@ (id :> 0)
        /\ fails' = fails @@ (id :> 0)
        /\ succs' = succs @@ (id :> 0)
        /\ orphaned' = orphaned
        /\ pjob' = id
    /\ ppc' = "enqueue"
    /\ UNCHANGED <<startVars, clock, ret, queue, dups, resp, workerVars, orderVars>>

\* POST /submit-job with a submission that passes the validation and that
\* the table refuses: createJobInDB throws and the request is answered 5xx
SubmitInsertThrows(type, payload) ==
    /\ ppc = "idle"
    /\ ValidSubmission(type, payload)
    /\ ~InsertAccepted(type, payload)
    /\ SeqConsumed(type, payload) => seq < MaxJobs
    /\ seq' = IF SeqConsumed(type, payload) THEN seq + 1 ELSE seq
    /\ jobs' = createJobInDB(jobs, seq + 1, type, payload, clock)
    /\ resp' = [code |-> 500]
    /\ UNCHANGED <<startVars, clock, ret, queue, dups, retries, ppc, pjob, workerVars, histVars, orderVars>>

\* POST /submit-job, second half: enqueue(jobId), then the 200 response
SubmitEnqueue ==
    /\ ppc = "enqueue"
    /\ queue' = Append(queue, pjob)
    /\ resp' = SubmitResponse(pjob)
    /\ ppc' = "idle"
    /\ pjob' = 0
    /\ UNCHANGED <<startVars, storeVars, dups, retries, workerVars, histVars, orderVars>>

\* the enqueue fails after the insert succeeded (5xx): the job is orphaned
SubmitEnqueueFails ==
    /\ ppc = "enqueue"
    /\ resp' = [code |-> 500]
    /\ ppc' = "idle"
    /\ pjob' = 0
    /\ orphaned' = orphaned \cup {pjob}
    /\ UNCHANGED <<startVars, storeVars, queue, dups, retries, workerVars, fails, succs, orderVars>>

(* ------------------------------ workers -------------------------------- *)

\* the worker holds the job between winning the transition and its last store call
Holds(w, id) == wjob[w] = id /\ wpc[w] \in {"exec", "report", "requeue", "write"}

\* the worker is running the job's handler
Executing(w, id) == wjob[w] = id /\ wpc[w] = "exec"

\* blocking dequeue: the oldest id leaves the queue
Dequeue(w) ==
    /\ wpc[w] = "idle"
    /\ queue # <<>>
    /\ wjob' = [wjob EXCEPT ![w] = Head(queue)]
    /\ queue' = Tail(queue)
    /\ wpc' = [wpc EXCEPT ![w] = "fetch"]
    /\ UNCHANGED <<startVars, storeVars, dups, retries, producerVars, wres, histVars, orderVars>>

\* at-least-once delivery: the id is handed out and delivered again later
DequeueDuplicate(w) ==
    /\ wpc[w] = "idle"
    /\ queue # <<>>
    /\ dups < MaxDup
    /\ dups' = dups + 1
    /\ wjob' = [wjob EXCEPT ![w] = Head(queue)]
    /\ wpc' = [wpc EXCEPT ![w] = "fetch"]
    /\ UNCHANGED <<startVars, storeVars, queue, retries, producerVars, wres, histVars, orderVars>>

\* re-fetch the job by id; skip it unless its status is the queued one
Fetch(w) ==
    /\ wpc[w] = "fetch"
    /\ LET rows == getJobById(jobs, wjob[w]) IN
        IF rows # <<>> /\ rows[1].status = StatusPending
        THEN /\ wpc' = [wpc EXCEPT ![w] = "claim"]
             /\ wjob' = wjob
        ELSE /\ wpc' = [wpc EXCEPT ![w] = "idle"]
             /\ wjob' = [wjob EXCEPT ![w] = 0]
    /\ UNCHANGED <<startVars, storeVars, queue, dups, retries, producerVars, wres, histVars, orderVars>>

\* increment retries: the side effect of the transition QUEUED -> PROCESSING
AttemptNotCounted(n) == n

IncrementRetries(n) == n + 1

\* the transition to PROCESSING: updateJobStatus(id, 'processing'); a row back
\* means the worker won, and the attempt is counted
Claim(w) ==
    /\ wpc[w] = "claim"
    /\ LET id == wjob[w]
           rows == updateJobStatusRows(jobs, id, StatusProcessing, clock) IN
        /\ jobs' = updateJobStatus(jobs, id, StatusProcessing, clock)
        /\ IF rows # <<>>
           THEN /\ retries' = [retries EXCEPT ![id] = IncrementRetries(@)]
                /\ wpc' = [wpc EXCEPT ![w] = "exec"]
                /\ wjob' = wjob
           ELSE /\ retries' = retries
                /\ wpc' = [wpc EXCEPT ![w] = "idle"]
                /\ wjob' = [wjob EXCEPT ![w] = 0]
    /\ UNCHANGED <<startVars, seq, clock, ret, queue, dups, producerVars, wres, histVars, orderVars>>

\* what a handler call can end in: it returns success, returns failure, or
\* throws (an error raised by the handler, or the rejection its timeout raises)
HandlerOutcomes == {"ok", "err", "throw"}

\* the handler selected by the job's type is run to its end
Execute(w, outcome) ==
    /\ wpc[w] = "exec"
    /\ wres' = [wres EXCEPT ![w] = outcome]
    /\ wpc' = [wpc EXCEPT ![w] = "report"]
    /\ fails' = [fails EXCEPT ![wjob[w]] = IF outcome # "ok" THEN @ + 1 ELSE @]
    /\ succs' = [succs EXCEPT ![wjob[w]] = IF outcome = "ok" THEN @ + 1 ELSE @]
    /\ orphaned' = orphaned
    /\ UNCHANGED <<startVars, storeVars, queue, dups, retries, producerVars, wjob, orderVars>>

\* a worker that gives up on a job whose handler threw or timed out
OutcomeStatusThrowFatal(outcome, attempts) ==
    IF outcome = "ok" THEN StatusCompleted
    ELSE IF outcome = "err" /\ attempts < maxRetries THEN StatusPending
    ELSE StatusFailed

\* the status the lifecycle table gives for a handler outcome
OutcomeStatus(outcome, attempts) ==
    IF outcome = "ok" THEN StatusCompleted
    ELSE IF attempts < maxRetries THEN StatusPending
    ELSE StatusFailed

\* a worker that writes the status of the retry and forgets the re-enqueue
ReportDropsRetry(w) ==
    /\ wpc[w] = "report"
    /\ jobs' = updateJobStatus(jobs, wjob[w], OutcomeStatus(wres[w], retries[wjob[w]]), clock)
    /\ wpc' = [wpc EXCEPT ![w] = "idle"]
    /\ wjob' = [wjob EXCEPT ![w] = 0]
    /\ wres' = [wres EXCEPT ![w] = "none"]
    /\ UNCHANGED <<startVars, seq, clock, ret, queue, dups, retries, producerVars, histVars, orderVars>>

\* the outcome is written to the store; a retry is re-enqueued after it,
\* unless the workers re-enqueue first
Report(w) ==
    /\ wpc[w] = "report"
    /\ LET id == wjob[w]
           new == OutcomeStatus(wres[w], retries[id]) IN
        /\ requeueFirst => new # StatusPending
        /\ jobs' = updateJobStatus(jobs, id, new, clock)
        /\ IF new = StatusPending
           THEN /\ wpc' = [wpc EXCEPT ![w] = "requeue"]
                /\ wjob' = wjob
           ELSE /\ wpc' = [wpc EXCEPT ![w] = "idle"]
                /\ wjob' = [wjob EXCEPT ![w] = 0]
    /\ wres' = [wres EXCEPT ![w] = "none"]
    /\ UNCHANGED <<startVars, seq, clock, ret, queue, dups, retries, producerVars, histVars, orderVars>>

\* the retry goes back on the tail of the broker queue
Requeue(w) ==
    /\ wpc[w] = "requeue"
    /\ queue' = Append(queue, wjob[w])
    /\ wpc' = [wpc EXCEPT ![w] = "idle"]
    /\ wjob' = [wjob EXCEPT ![w] = 0]
    /\ UNCHANGED <<startVars, storeVars, dups, retries, producerVars, wres, histVars, orderVars>>

Next ==
    \/ \E t \in TypeInputs, p \in PayloadInputs : SubmitRejected(t, p)
    \/ \E t \in TypeInputs, p \in PayloadInputs : SubmitInsert(t, p)
    \/ \E t \in TypeInputs, p \in PayloadInputs : SubmitInsertThrows(t, p)
    \/ SubmitEnqueue
    \/ SubmitEnqueueFails
    \/ \E w \in Workers : Dequeue(w)
    \/ \E w \in Workers : DequeueDuplicate(w)
    \/ \E w \in Workers : Fetch(w)
    \/ \E w \in Workers : Claim(w)
    \/ \E w \in Workers, o \in HandlerOutcomes : Execute(w, o)
    \/ \E w \in Workers : Report(w)
    \/ \E w \in Workers : Requeue(w)

Spec == Init /\ [][Next]_vars

(* ----------------------- the store called directly --------------------- *)

CallCreateJobInDB(type, payload) ==
    /\ seq < MaxRows
    /\ seq' = IF SeqConsumed(type, payload) THEN seq + 1 ELSE seq
    /\ jobs' = createJobInDB(jobs, seq + 1, type, payload, clock)
    /\ ret' = [threw |-> ~InsertAccepted(type, payload),
               rows |-> getJobById(createJobInDB(jobs, seq + 1, type, payload, clock), seq + 1)]
    /\ UNCHANGED <<startVars, clock, pipeVars>>

CallGetJobById(id) ==
    /\ ret' = [threw |-> FALSE, rows |-> getJobById(jobs, id)]
    /\ UNCHANGED <<startVars, jobs, seq, clock, pipeVars>>

CallUpdateJobStatus(id, status) ==
    /\ jobs' = updateJobStatus(jobs, id, status, clock)
    /\ ret' = [threw |-> UpdateThrows(jobs, id, status),
               rows |-> updateJobStatusRows(jobs, id, status, clock)]
    /\ UNCHANGED <<startVars, seq, clock, pipeVars>>

Tick ==
    /\ clock < MaxClock
    /\ clock' = clock + 1
    /\ UNCHANGED <<startVars, jobs, seq, ret, pipeVars>>

StoreNext ==
    \/ \E t \in StoreTypeInputs, p \in PayloadInputs : CallCreateJobInDB(t, p)
    \/ \E id \in 1..(MaxRows + 1) : CallGetJobById(id)
    \/ \E id \in 1..(MaxRows + 1), s \in StatusInputs : CallUpdateJobStatus(id, s)
    \/ Tick

StoreSpec == Init /\ [][StoreNext]_vars

(* ------------------------- fair scheduling ----------------------------- *)

\* the steps of one worker's loop
WorkerStep(w) ==
    \/ Dequeue(w)
    \/ Fetch(w)
    \/ Claim(w)
    \/ \E o \in HandlerOutcomes : Execute(w, o)
    \/ Report(w)
    \/ Requeue(w)

\* the pipeline while the store and the broker stay reachable: every
\* enqueue of a submit succeeds
FairNext ==
    \/ \E t \in TypeInputs, p \in PayloadInputs : SubmitRejected(t, p)
    \/ \E t \in TypeInputs, p \in PayloadInputs : SubmitInsert(t, p)
    \/ \E t \in TypeInputs, p \in PayloadInputs : SubmitInsertThrows(t, p)
    \/ SubmitEnqueue
    \/ \E w \in Workers : DequeueDuplicate(w)
    \/ \E w \in Workers : WorkerStep(w)

\* the producer finishes a submit it has begun, and every worker that can
\* take a step of its loop eventually takes one
FairSpec ==
    /\ Init
    /\ [][FairNext]_vars
    /\ WF_vars(SubmitEnqueue)
    /\ \A w \in Workers : WF_vars(WorkerStep(w))

(* --------------------------- worker crashes ---------------------------- *)

\* a worker stops for good while it runs the handler or before it has
\* written the outcome; it keeps no state and nothing is written for it
Crash(w) ==
    /\ wpc[w] \in {"exec", "report"}
    /\ wpc' = [wpc EXCEPT ![w] = "crashed"]
    /\ UNCHANGED <<startVars, storeVars, queue, dups, retries, producerVars, wjob, wres, histVars, orderVars>>

CrashNext ==
    \/ Next
    \/ \E w \in Workers : Crash(w)

CrashSpec == Init /\ [][CrashNext]_vars

(* ------------------- the two orders of a retry's steps ------------------ *)

\* the transition PROCESSING -> QUEUED has a side effect, the re-enqueue of
\* the id, and nothing fixes the order of the two: these workers re-enqueue
\* the id first
RequeueAhead(w) ==
    /\ wpc[w] = "report"
    /\ requeueFirst
    /\ OutcomeStatus(wres[w], retries[wjob[w]]) = StatusPending
    /\ queue' = Append(queue, wjob[w])
    /\ wpc' = [wpc EXCEPT ![w] = "write"]
    /\ UNCHANGED <<startVars, storeVars, dups, retries, producerVars, wjob, wres, histVars, orderVars>>

\* and write the outcome to the store after it
ReportAfterRequeue(w) ==
    /\ wpc[w] = "write"
    /\ jobs' = updateJobStatus(jobs, wjob[w], OutcomeStatus(wres[w], retries[wjob[w]]), clock)
    /\ wpc' = [wpc EXCEPT ![w] = "idle"]
    /\ wjob' = [wjob EXCEPT ![w] = 0]
    /\ wres' = [wres EXCEPT ![w] = "none"]
    /\ UNCHANGED <<startVars, seq, clock, ret, queue, dups, retries, producerVars, histVars, orderVars>>

\* workers of either kind
ReorderInit ==
    /\ InitServing
    /\ requeueFirst \in BOOLEAN

\* the steps that act on a job: those of Next but the submissions that are
\* turned down, which leave the store and the queue as they are
ReorderNext ==
    \/ \E t \in TypeInputs, p \in PayloadInputs : SubmitInsert(t, p)
    \/ SubmitEnqueue
    \/ SubmitEnqueueFails
    \/ \E w \in Workers : Dequeue(w)
    \/ \E w \in Workers : DequeueDuplicate(w)
    \/ \E w \in Workers : Fetch(w)
    \/ \E w \in Workers : Claim(w)
    \/ \E w \in Workers, o \in HandlerOutcomes : Execute(w, o)
    \/ \E w \in Workers : Report(w)
    \/ \E w \in Workers : Requeue(w)
    \/ \E w \in Workers : RequeueAhead(w)
    \/ \E w \in Workers : ReportAfterRequeue(w)

ReorderSpec == ReorderInit /\ [][ReorderNext]_vars

(* ---------------------------- API start-up ------------------------------ *)

\* process.exit(1): the process ends at the named statement
Exit(at) ==
    /\ apc' = "exited"
    /\ abortedAt' = at

\* the modules of the import graph are parsed and linked before any of
\* them runs: a module that declares an identifier twice is a SyntaxError,
\* and the process ends there with code 1
LinkModules ==
    /\ apc = "link"
    /\ IF "redisClient.js:122" \notin repairs
         THEN Exit("redisClient.js:122")
       ELSE IF "jobController.js:64" \notin repairs
         THEN Exit("jobController.js:64")
       ELSE apc' = "load" /\ abortedAt' = abortedAt
    /\ UNCHANGED <<storeVars, pipeVars, settingVars, connectFailed, listenPort, dbUp, redisUp, tableReady>>

\* evaluation of db/db.js, the first module of the server's import graph
\* with a body: the pool is created (no connection is opened yet), the
\* listeners are registered, and the module body then calls process.exit(1)
LoadDbModule ==
    /\ apc = "load"
    /\ IF "db.js:125" \notin repairs
       THEN Exit("db.js:125")
       ELSE apc' = "connect" /\ abortedAt' = abortedAt
    /\ UNCHANGED <<storeVars, pipeVars, settingVars, connectFailed, listenPort, dbUp, redisUp, tableReady>>

\* await redisClient.connect() at the top level of the redis module. With
\* the broker unreachable the client either rejects the call, and the
\* process ends on the uncaught error, or emits 'error' to the listener of
\* lines 90-93 and tries again, and the module stays at the await until the
\* broker can be reached
ConnectRedis ==
    /\ apc = "connect"
    /\ \/ /\ redisUp
          /\ apc' = "create"
          /\ UNCHANGED <<abortedAt, connectFailed>>
       \/ /\ ~redisUp
          /\ redisGivesUp
          /\ Exit("redisClient.js:99")
          /\ connectFailed' = TRUE
       \/ /\ ~redisUp
          /\ ~redisGivesUp
          /\ connectFailed' = TRUE
          /\ UNCHANGED <<apc, abortedAt>>
    /\ UNCHANGED <<storeVars, pipeVars, settingVars, listenPort, dbUp, redisUp, tableReady>>

\* a createJobsTable whose catch logs the error and returns
CreateJobsTableKeepsGoing ==
    /\ apc = "create"
    /\ apc' = "listen"
    /\ tableReady' = (tableReady \/ dbUp)
    /\ UNCHANGED <<storeVars, pipeVars, settingVars, connectFailed, listenPort, dbUp, redisUp, abortedAt>>

\* startServer, first statement: await createJobsTable(); the query runs
\* CREATE TABLE IF NOT EXISTS, and its catch calls process.exit(1)
CreateJobsTable ==
    /\ apc = "create"
    /\ IF dbUp
       THEN apc' = "listen" /\ tableReady' = TRUE /\ abortedAt' = abortedAt
       ELSE Exit("jobController.js:119") /\ tableReady' = tableReady
    /\ UNCHANGED <<storeVars, pipeVars, settingVars, connectFailed, listenPort, dbUp, redisUp>>

\* const PORT = process.env.PORT || 5000
PORT == IF envPort = 0 THEN DefaultPort ELSE envPort

\* a port of TCP
TcpPort(port) == port \in 0..65535

\* what app.listen takes without throwing: a port of TCP, or a string of
\* the environment that is not a number of 0 or more, which it takes for
\* the path of a pipe
ValidPort(port) == TcpPort(port) \/ port < 0

\* startServer, second statement: app.listen(PORT, ...).  A number above
\* 65535 makes listen throw, and the catch of startServer calls
\* process.exit(1). An address in use comes back as an 'error' event on the
\* server: either nothing handles it and the process ends with code 1, or
\* the framework hands it to the callback of listen, which logs 'API Server
\* running' and leaves the process running with nothing listening
Listen ==
    /\ apc = "listen"
    /\ \/ /\ ~ValidPort(PORT)
          /\ Exit("redisClient.js:333")
          /\ listenPort' = listenPort
       \/ /\ ValidPort(PORT)
          /\ portBusy
          /\ Exit("redisClient.js:313") \/ (apc' = "unbound" /\ abortedAt' = abortedAt)
          /\ listenPort' = listenPort
       \/ /\ ValidPort(PORT)
          /\ ~portBusy
          /\ apc' = "listening"
          /\ listenPort' = PORT
          /\ abortedAt' = abortedAt
    /\ UNCHANGED <<storeVars, pipeVars, settingVars, connectFailed, dbUp, redisUp, tableReady>>

\* the store becomes unreachable, or reachable again
StoreFlips ==
    /\ dbUp' = ~dbUp
    /\ UNCHANGED <<storeVars, pipeVars, settingVars, connectFailed, listenPort, apc, redisUp, tableReady, abortedAt>>

\* the broker becomes unreachable, or reachable again
BrokerFlips ==
    /\ redisUp' = ~redisUp
    /\ UNCHANGED <<storeVars, pipeVars, settingVars, connectFailed, listenPort, apc, dbUp, tableReady, abortedAt>>

Listening == apc = "listening"

\* a valid submission arriving while the store is unreachable: the insert
\* throws and the request is answered 5xx
SubmitStoreFails(type, payload) ==
    /\ ppc = "idle"
    /\ ValidSubmission(type, payload)
    /\ resp' = [code |-> 500]
    /\ UNCHANGED <<startVars, storeVars, queue, dups, retries, ppc, pjob, workerVars, histVars, orderVars>>

\* the process is started. repairs = {} is the program as its sources stand;
\* the other values are the same sources without the named statements, so
\* that the statements behind them (redisClient.js:99, startServer) run too
StartupInit ==
    /\ InitPipeline
    /\ repairs \in SUBSET Defects
    /\ portBusy \in BOOLEAN
    /\ envPort \in PortInputs
    /\ listenPort = 0
    /\ apc = "link"
    /\ dbUp \in BOOLEAN
    /\ redisUp \in BOOLEAN
    /\ tableReady = FALSE
    /\ abortedAt = "none"
    /\ redisGivesUp \in BOOLEAN
    /\ connectFailed = FALSE
    /\ requeueFirst = FALSE

\* the steps of the start-up itself
StartupStep ==
    \/ LinkModules
    \/ LoadDbModule
    \/ ConnectRedis
    \/ CreateJobsTable
    \/ Listen

\* the start-up, the environment, and the requests a listening server takes
StartupNext ==
    \/ LinkModules
    \/ LoadDbModule
    \/ ConnectRedis
    \/ CreateJobsTable
    \/ Listen
    \/ StoreFlips
    \/ BrokerFlips
    \/ Listening /\ \E t \in TypeInputs, p \in PayloadInputs : SubmitRejected(t, p)
    \/ Listening /\ dbUp /\ \E t \in TypeInputs, p \in PayloadInputs : SubmitInsert(t, p)
    \/ Listening /\ dbUp /\ \E t \in TypeInputs, p \in PayloadInputs : SubmitInsertThrows(t, p)
    \/ Listening /\ ~dbUp /\ \E t \in TypeInputs, p \in PayloadInputs : SubmitStoreFails(t, p)
    \/ Listening /\ redisUp /\ SubmitEnqueue
    \/ Listening /\ ~redisUp /\ SubmitEnqueueFails

StartupSpec == StartupInit /\ [][StartupNext]_vars

\* the process keeps running its start-up until it listens or exits
StartupFairSpec == StartupSpec /\ WF_vars(StartupStep)

(* ------------------------------ claims --------------------------------- *)

\* C1: of two workers delivered the same queued job id, only one wins the
\* transition to PROCESSING: a worker whose update finds the status no longer
\* QUEUED gets a no-op and does not go on to execute the handler.
C1_LoserGetsNoOp ==
    [][\A w \in Workers :
          (wpc[w] = "claim" /\ wpc'[w] = "exec")
              => jobs[wjob[w]].status = StatusPending]_vars

\* C2: in every reachable state at most one worker is executing a given job's handler.
C2_AtMostOneExecuting ==
    \A id \in DOMAIN jobs : Cardinality({w \in Workers : Executing(w, id)}) <= 1

\* C3: once a job's stored status is COMPLETED, no step changes it.
C3_CompletedTerminal ==
    [][\A id \in DOMAIN jobs :
          jobs[id].status = StatusCompleted => jobs'[id].status = StatusCompleted]_vars

\* the four transitions of the lifecycle table
LifecycleTransition(old, new, attempts) ==
    \/ old = StatusPending /\ new = StatusProcessing
    \/ old = StatusProcessing /\ new = StatusCompleted
    \/ old = StatusProcessing /\ new = StatusPending /\ attempts < maxRetries
    \/ old = StatusProcessing /\ new = StatusFailed /\ attempts >= maxRetries

\* C4: every change of a job's stored status is one of the four transitions
\* of the lifecycle table.
C4_OnlyLifecycleTransitions ==
    [][\A id \in DOMAIN jobs :
          jobs'[id].status # jobs[id].status
              => LifecycleTransition(jobs[id].status, jobs'[id].status, retries[id])]_vars

\* handler executions of the job that have started and not yet returned
InFlight(id) == Cardinality({w \in Workers : Executing(w, id)})

\* no producer or worker step on the job is in progress and no delivery is pending
Quiescent(id) ==
    /\ \A w \in Workers : wjob[w] # id
    /\ \A i \in 1..Len(queue) : queue[i] # id
    /\ ~(ppc = "enqueue" /\ pjob = id)

\* C5 as stated: after N failed executions followed by one successful
\* execution the job's retries counter equals N.
C5_RetriesEqualFailures ==
    \A id \in DOMAIN jobs :
        (succs[id] = 1 /\ InFlight(id) = 0) => retries[id] = fails[id]

\* C5 as amended: after N failed executions followed by one successful
\* execution the job's retries counter equals N + 1, the successful attempt
\* being counted as well.
C5_RetriesEqualAttempts ==
    \A id \in DOMAIN jobs :
        (succs[id] = 1 /\ InFlight(id) = 0) => retries[id] = fails[id] + 1

C5_Witness ==
    \E id \in DOMAIN jobs :
        succs[id] = 1 /\ fails[id] = 2 /\ InFlight(id) = 0 /\ retries[id] = 3

\* C6: retries never decreases and counts every execution attempt once, the
\* successful one included; a job that has failed twice and succeeded once
\* has come to rest COMPLETED with retries = 3 (maxRetries = 3).
C6_RetriesCountAttempts ==
    [][\A id \in DOMAIN jobs :
          /\ retries'[id] >= retries[id]
          /\ retries'[id] = fails'[id] + succs'[id] + InFlight(id)'
          /\ (fails'[id] = 2 /\ succs'[id] = 1 /\ Quiescent(id)')
                => (jobs'[id].status = StatusCompleted /\ retries'[id] = 3)]_vars

\* C7: a job whose handler always fails is executed at most maxRetries times,
\* is FAILED with retries = maxRetries once it has failed maxRetries times, and
\* once FAILED it stays FAILED and is not executed again.
C7_AlwaysFailingEndsFailed ==
    [][\A id \in DOMAIN jobs :
          /\ succs'[id] = 0 => fails'[id] <= maxRetries
          /\ (succs'[id] = 0 /\ jobs'[id].status = StatusFailed) => retries'[id] = maxRetries
          /\ (succs'[id] = 0 /\ fails'[id] = maxRetries /\ Quiescent(id)')
                => jobs'[id].status = StatusFailed
          /\ (succs'[id] = 0 /\ jobs[id].status = StatusFailed)
                => (jobs'[id].status = StatusFailed /\ retries'[id] = retries[id])]_vars

\* C8: a submission with a missing or unknown jobType, or a missing payload,
\* is answered 400 in the same step and leaves the store and the queue as
\* they were: no record is created and no id is enqueued for it.
C8_BadSubmissionRejected ==
    [][(/\ ppc = "idle"
        /\ workerVars' = workerVars
        /\ \E t \in TypeInputs, p \in PayloadInputs :
              /\ t \notin KnownTypes \/ p = NULL
              /\ SubmitRejected(t, p) \/ SubmitInsert(t, p) \/ SubmitInsertThrows(t, p))
          => /\ jobs' = jobs
             /\ seq' = seq
             /\ queue' = queue
             /\ ppc' = "idle"
             /\ resp' = [code |-> 400]]_vars

C8_Witness ==
    /\ resp = [code |-> 400]
    /\ DOMAIN jobs # {}
    /\ queue # <<>>
    /\ \A id \in DOMAIN jobs : jobs[id].type \in KnownTypes

\* C9: a job is QUEUED with retries 0 right after its creation by the insert,
\* and a successful submit reports the status "QUEUED".
C9_CreatedQueued ==
    [][/\ \A id \in (DOMAIN jobs') \ (DOMAIN jobs) :
              jobs'[id].status = "QUEUED" /\ retries'[id] = 0
       /\ resp'.code = 200 => resp'.status = "QUEUED"]_vars

\* C10: in every reachable state each stored job's status is one of QUEUED,
\* PROCESSING, COMPLETED, FAILED.
C10_StatusInSet ==
    \A id \in DOMAIN jobs : jobs[id].status \in ReadmeStatuses

\* C11: a worker that dequeues a job id whose stored status is not QUEUED
\* (a stale or duplicate queue entry) drops it: it does not go on to the
\* handler, and the job's status and retries stay as they were.
C11_StaleDequeueNoOp ==
    [][\A w \in Workers :
          (/\ wpc[w] = "fetch"
           /\ wpc'[w] # "fetch"
           /\ (wjob[w] \notin DOMAIN jobs \/ jobs[wjob[w]].status # StatusPending))
              => /\ wpc'[w] = "idle"
                 /\ jobs' = jobs
                 /\ retries' = retries
                 /\ fails' = fails
                 /\ succs' = succs]_vars

\* both deliveries of a duplicated id were consumed and one execution took
\* place: the other delivery was dropped at the re-check
C11_Witness ==
    /\ dups = 1
    /\ queue = <<>>
    /\ \A w \in Workers : wpc[w] = "idle"
    /\ \E id \in DOMAIN jobs :
          jobs[id].status = StatusCompleted /\ retries[id] = 1 /\ succs[id] = 1

\* C12: a job whose enqueue failed after its insert stays in the store with
\* status QUEUED and is never delivered: it is in no queue entry, no worker
\* holds it, and its handler has not been executed.
C12_OrphanStaysQueued ==
    \A id \in orphaned :
        /\ id \in DOMAIN jobs
        /\ jobs[id].status = StatusPending
        /\ \A i \in 1..Len(queue) : queue[i] # id
        /\ \A w \in Workers : wjob[w] # id
        /\ retries[id] = 0 /\ fails[id] = 0 /\ succs[id] = 0

\* the enqueue of a job failed and the producer has since answered a
\* further request
C12_Witness ==
    /\ orphaned # {}
    /\ resp = [code |-> 400]
    /\ ppc = "idle"

\* C13: a job left PROCESSING by a worker that crashed while holding it is
\* not rolled back or redelivered: no later step of the producer or of the
\* remaining workers changes its status.
C13_CrashedJobStaysProcessing ==
    [][\A w \in Workers :
          (wpc[w] = "crashed" /\ jobs[wjob[w]].status = StatusProcessing)
              => jobs'[wjob[w]].status = StatusProcessing]_vars

C15_ThrowTreatedAsFailure ==
    [][\A w \in Workers :
          (wpc[w] = "report" /\ wres[w] = "throw" /\ wpc'[w] # "report")
              => LET id == wjob[w] IN
                   \/ /\ retries[id] < maxRetries
                      /\ jobs'[id].status = StatusPending
                      /\ wpc'[w] = "requeue"
                   \/ /\ retries[id] >= maxRetries
                      /\ jobs'[id].status = StatusFailed
                      /\ wpc'[w] = "idle"]_vars

\* the handler of a job has thrown on the job's last attempt and on an
\* earlier one, and the worker is about to write the outcome
C15_Witness ==
    \E w \in Workers :
        /\ wpc[w] = "report"
        /\ wres[w] = "throw"
        /\ retries[wjob[w]] = maxRetries
        /\ fails[wjob[w]] = maxRetries

C17_StartsWhenReachable ==
    (repairs = {} /\ TcpPort(PORT) /\ ~portBusy /\ [](dbUp /\ redisUp))
        => ([](apc # "exited") /\ <>Listening)

\* C18: updateJobStatus on an existing job changes only that job's status
\* and updated_at: its id, type, payload and created_at stay as they were,
\* no record appears or disappears, and every other record is unchanged.
C18_UpdateFrame ==
    [][\A id \in DOMAIN jobs, st \in StatusInputs :
          CallUpdateJobStatus(id, st)
              => /\ DOMAIN jobs' = DOMAIN jobs
                 /\ jobs'[id].id = jobs[id].id
                 /\ jobs'[id].type = jobs[id].type
                 /\ jobs'[id].payload = jobs[id].payload
                 /\ jobs'[id].created_at = jobs[id].created_at
                 /\ \A o \in DOMAIN jobs \ {id} : jobs'[o] = jobs[o]]_vars

\* one record has been updated after its creation, next to a record that is
\* still as it was inserted
C18_Witness ==
    \E id \in DOMAIN jobs, o \in DOMAIN jobs :
        /\ id # o
        /\ jobs[id].status = StatusCompleted
        /\ jobs[id].updated_at > jobs[id].created_at
        /\ jobs[o].status = StatusPending
        /\ jobs[o].updated_at = jobs[o].created_at
        /\ ret.rows = <<jobs[id]>>

\* the job's id is in the broker queue
InQueue(id) == \E i \in 1..Len(queue) : queue[i] = id

Terminal(id) == id \in DOMAIN jobs /\ jobs[id].status \in {StatusCompleted, StatusFailed}

\* handler executions of the job that have run to their end
Attempts(id) == fails[id] + succs[id]

\* C19: with the store and the broker reachable, every submit enqueue
\* succeeding, no worker crashing and every handler call returning, under
\* fair scheduling of the workers every submitted job eventually reaches
\* COMPLETED or FAILED, after at most maxRetries executions of its handler.
C19_EventuallyTerminal ==
    /\ \A id \in 1..MaxJobs : (id \in DOMAIN jobs) ~> Terminal(id)
    /\ [](\A id \in DOMAIN jobs : Attempts(id) <= maxRetries)

====
